---- MODULE Spec2Model ----
(***************************************************************************)
(* Model of AnkiConverter (src/src/anki_converter.py): the conversion of   *)
(* an .apkg archive into a table with one row per card.                    *)
(*                                                                         *)
(* Text is a sequence of tokens.  A token is one character, except that    *)
(* the literal "[sound:" (the fixed prefix of the audio-reference regex),  *)
(* a markup tag and the 0x1F field separator are one token each.           *)
(* Optional values (Python None) are sequences: <<>> is None, <<v>> is v.  *)
(***************************************************************************)
EXTENDS Integers, Sequences, FiniteSets, TLC

VARIABLES
    entries,     \* the archive: set of entry names (ZipFile.namelist())
    manifest,    \* the archive: decoded `media` entry, seq of <<numeric id, filename>>
    models,      \* the database: col.models, seq of note types in dict order
    rows,        \* the database: notes JOIN cards, seq of [flds, mid, ord]
    pc,          \* position of the running call
    call,        \* the running call: its name and arguments
    ret,         \* how the call ended: [kind |-> "none" | "value" | "raise", ...]
    db_path,     \* local of convert/get_model_names (optional)
    conn,        \* local of convert/get_model_names (optional)
    scratch,     \* number of scratch database files on disk
    connOpen,    \* number of open database connections
    mid,         \* local of convert (optional int)
    media_map,   \* local of convert
    header,      \* local of convert
    values,      \* local of convert
    kept,        \* for each emitted row, the index in rows of its (note, card) pair
    outFile,     \* the output file: <<>> when absent, else <<[format, header, rows]>>
    mediaDir,    \* <output-dir>/media: [exists, files]
    failedAt,    \* the step that raised ("" when none did)
    warned       \* _extract_media printed its warning

vars == <<entries, manifest, models, rows, pc, call, ret, db_path, conn,
          scratch, connOpen, mid, media_map, header, values, kept, outFile,
          mediaDir, failedAt, warned>>

----------------------------------------------------------------------------
(* Bounds of the model *)

MaxLen == 5       \* longest text given to _process_media_tags
MaxId == 1        \* note-type ids in catalogs are 0..MaxId
MaxModels == 2    \* most note types in a catalog
MaxRows == 1      \* most (note, card) pairs in a database
MaxOrd == 1       \* card ordinals are 0..MaxOrd
MaxFrags == 2     \* most 0x1F-separated fragments in a note's content

----------------------------------------------------------------------------
(* Tokens *)

SND == "[sound:"
END == "]"
NL == "\n"
US == "0x1F"
TAG == "<b>"
SP == " "

None == <<>>
Some(v) == <<v>>

\* Python truthiness of an Optional[int] / Optional[str] / dict
TruthyInt(opt) == opt # None /\ opt[1] # 0
TruthyStr(opt) == opt # None /\ opt[1] # ""
TruthyMap(m) == DOMAIN m # {}

EmptyMap == [f \in {} |-> <<>>]

Value(v) == [kind |-> "value", val |-> v]
Raise(e) == [kind |-> "raise", exc |-> e]
NoRet == [kind |-> "none"]

RECURSIVE Concat(_)
Concat(ss) == IF ss = <<>> THEN <<>> ELSE Head(ss) \o Concat(Tail(ss))

Min(S) == CHOOSE x \in S : \A y \in S : x <= y
Max(S) == CHOOSE x \in S : \A y \in S : x >= y

----------------------------------------------------------------------------
(* _process_media_tags: re.sub(r'\[sound:(.*?)\]', replace_sound, text) *)

\* positions of the "]" that can end a match opened at i: "." does not match
\* a newline, so the captured group holds none
Closers(text, i) ==
    {j \in (i + 1)..Len(text) :
        /\ text[j] = END
        /\ \A k \in (i + 1)..(j - 1) : text[k] # NL}

\* the regex matches at position i
MatchAt(text, i) == text[i] = SND /\ Closers(text, i) # {}

\* the group is non-greedy: the match ends at the first possible "]"
MatchEnd(text, i) == Min(Closers(text, i))

\* replace_sound without its last line: an unmapped tag is replaced by nothing
replace_sound_DropUnknown(match, mmap, is_excel) ==
    LET filename == SubSeq(match, 2, Len(match) - 1) IN
    IF filename \in DOMAIN mmap
    THEN IF is_excel
         THEN <<"=HYPERLINK(\"">> \o mmap[filename] \o <<"\", \"Play Audio\")">>
         ELSE mmap[filename]
    ELSE <<>>

replace_sound(match, mmap, is_excel) ==
    LET filename == SubSeq(match, 2, Len(match) - 1) IN
    IF filename \in DOMAIN mmap
    THEN IF is_excel
         THEN <<"=HYPERLINK(\"">> \o mmap[filename] \o <<"\", \"Play Audio\")">>
         ELSE mmap[filename]
    ELSE match

RECURSIVE ReSub(_, _, _, _)
ReSub(text, i, mmap, is_excel) ==
    IF i > Len(text) THEN <<>>
    ELSE IF MatchAt(text, i)
         THEN LET j == MatchEnd(text, i) IN
              replace_sound(SubSeq(text, i, j), mmap, is_excel)
                  \o ReSub(text, j + 1, mmap, is_excel)
         ELSE <<text[i]>> \o ReSub(text, i + 1, mmap, is_excel)

ProcessMediaTags(text, mmap, is_excel) ==
    IF text = <<>> THEN <<>> ELSE ReSub(text, 1, mmap, is_excel)

----------------------------------------------------------------------------
(* _clean_html *)

IsSpace(t) == t \in {NL, SP}

RECURSIVE Strip(_)
Strip(s) ==
    IF s = <<>> THEN s
    ELSE IF IsSpace(Head(s)) THEN Strip(Tail(s))
    ELSE IF IsSpace(s[Len(s)]) THEN Strip(SubSeq(s, 1, Len(s) - 1))
    ELSE s

\* the text nodes of the parsed markup: the runs of tokens between tags
RECURSIVE TextNodes(_, _)
TextNodes(s, cur) ==
    IF s = <<>> THEN <<cur>>
    ELSE IF Head(s) = TAG THEN <<cur>> \o TextNodes(Tail(s), <<>>)
    ELSE TextNodes(Tail(s), Append(cur, Head(s)))

RECURSIVE JoinWith(_, _)
JoinWith(ss, sep) ==
    IF ss = <<>> THEN <<>>
    ELSE IF Len(ss) = 1 THEN ss[1]
    ELSE ss[1] \o <<sep>> \o JoinWith(Tail(ss), sep)

\* BeautifulSoup(text).get_text(separator=" ", strip=True)
GetText(s) ==
    LET nodes == TextNodes(s, <<>>)
        stripped == [k \in 1..Len(nodes) |-> Strip(nodes[k])]
    IN JoinWith(SelectSeq(stripped, LAMBDA n : n # <<>>), SP)

CleanHtml(text) ==
    IF text = <<>> THEN <<>>
    ELSE IF \A k \in 1..Len(text) : text[k] # TAG THEN text
    ELSE GetText(text)

----------------------------------------------------------------------------
(* the schema catalog *)

\* models.get(id): the note type with that id, optional
ModelGet(ms, id) ==
    IF \E k \in 1..Len(ms) : ms[k].id = id
    THEN Some(ms[CHOOSE k \in 1..Len(ms) : ms[k].id = id])
    ELSE None

ModelNames(ms) == [k \in 1..Len(ms) |-> ms[k].name]

\* _get_header(conn, mid) once _get_models(conn) returned ms
GetHeader(ms, m) ==
    IF ms = <<>> THEN Raise("RuntimeError")
    ELSE IF TruthyInt(m)
         THEN IF ModelGet(ms, m[1]) = None
              THEN Raise("RuntimeError")
              ELSE Value(<<"Note Type", "Card Type">> \o ModelGet(ms, m[1])[1].flds)
         ELSE Value(<<"Note Type", "Card Type">> \o ms[1].flds)

\* the resolving loop falling back to the first note type
ResolveName_FirstOnMiss(ms, name) ==
    IF \E k \in 1..Len(ms) : ms[k].name = name
    THEN Some(ms[Min({k \in 1..Len(ms) : ms[k].name = name})].id)
    ELSE IF ms = <<>> THEN None ELSE Some(ms[1].id)

\* the loop of convert that resolves model_name to an id
ResolveName(ms, name) ==
    IF \E k \in 1..Len(ms) : ms[k].name = name
    THEN Some(ms[Min({k \in 1..Len(ms) : ms[k].name = name})].id)
    ELSE None

----------------------------------------------------------------------------
(* _get_values *)

\* str.split("\x1f")
RECURSIVE Split(_, _)
Split(s, cur) ==
    IF s = <<>> THEN <<cur>>
    ELSE IF Head(s) = US THEN <<cur>> \o Split(Tail(s), <<>>)
    ELSE Split(Tail(s), Append(cur, Head(s)))

CardLabel == <<"Card 1", "Card 2", "Card 3", "Card 4", "Card 5">>

\* f"Card {card_ord + 1}"
CardN(ord) == CardLabel[ord + 1]

ModelNameOf(ms, row_mid) ==
    IF ModelGet(ms, row_mid) = None THEN "Unknown" ELSE ModelGet(ms, row_mid)[1].name

TmplsOf(ms, row_mid) ==
    IF ModelGet(ms, row_mid) = None THEN <<>> ELSE ModelGet(ms, row_mid)[1].tmpls

\* the template lookup with its bound off by one
CardTypeName_OffByOne(ms, r) ==
    LET tmpls == TmplsOf(ms, r.mid) IN
    IF r.ord + 1 < Len(tmpls) THEN tmpls[r.ord + 1] ELSE CardN(r.ord)

CardTypeName(ms, r) ==
    LET tmpls == TmplsOf(ms, r.mid) IN
    IF r.ord < Len(tmpls) THEN tmpls[r.ord + 1] ELSE CardN(r.ord)

CleanField(field, mmap, is_excel) ==
    CleanHtml(IF TruthyMap(mmap) THEN ProcessMediaTags(field, mmap, is_excel) ELSE field)

\* the row appended for one fetched (note, card) pair
RowOf(ms, r, mmap, is_excel) ==
    LET fields == Split(r.flds, <<>>) IN
    <<ModelNameOf(ms, r.mid), CardTypeName(ms, r)>>
        \o [k \in 1..Len(fields) |-> CleanField(fields[k], mmap, is_excel)]

\* the pairs the query fetches: WHERE n.mid = ? is added under `if mid:`
Fetched(rs, m) ==
    {k \in 1..Len(rs) : TruthyInt(m) => rs[k].mid = m[1]}

\* the pairs that get past `if card_type and card_type != card_type_name: continue`
Kept(ms, rs, m, card_type) ==
    {k \in Fetched(rs, m) : TruthyStr(card_type) => card_type[1] = CardTypeName(ms, rs[k])}

RECURSIVE SortedSeq(_)
SortedSeq(S) == IF S = {} THEN <<>> ELSE <<Min(S)>> \o SortedSeq(S \ {Min(S)})

KeptSeq(ms, rs, m, card_type) == SortedSeq(Kept(ms, rs, m, card_type))

GetValues(ms, rs, m, card_type, mmap, is_excel) ==
    LET ks == KeptSeq(ms, rs, m, card_type) IN
    [k \in 1..Len(ks) |-> RowOf(ms, rs[ks[k]], mmap, is_excel)]

----------------------------------------------------------------------------
(* The inputs *)

Alphabet == {SND, END, "a", "b", NL}

Texts == UNION {[1..n -> Alphabet] : n \in 0..MaxLen}

FileNames == {<<"a">>, <<"b">>}

\* f"media/{filename}"
MediaPath(filename) == <<"media/">> \o filename

\* the mapping _extract_media builds for the files it copied
MediaMapOf(F) == [f \in F |-> MediaPath(f)]

MediaMaps == {MediaMapOf(F) : F \in SUBSET FileNames}

ModelTable ==
    << [id |-> 0, name |-> "Basic", flds |-> <<"Front", "Back">>,
        tmpls |-> <<"Card 1">>],
       [id |-> 1, name |-> "Cloze", flds |-> <<"Text">>,
        tmpls |-> <<"Forward", "Reverse">>],
       [id |-> 2, name |-> "Vocab", flds |-> <<"Front", "Word", "Extra">>,
        tmpls |-> <<"Card 1", "Card 2">>],
       [id |-> 3, name |-> "Audio", flds |-> <<"Word", "Sound">>,
        tmpls |-> <<"Listen">>] >>

Injective(f) == \A i, j \in DOMAIN f : f[i] = f[j] => i = j

\* the catalogs: note types with distinct ids, in any dict order
Catalogs ==
    {[k \in 1..Len(c) |-> ModelTable[c[k] + 1]] :
        c \in {d \in UNION {[1..n -> 0..MaxId] : n \in 0..MaxModels} : Injective(d)}}

\* ids a note can carry: those of the table and one that no catalog holds
NoteMids == 0..(MaxId + 1)

FragTable == << <<"a", SND, "a", END>>, <<TAG, "b", TAG>>, <<"b">>, <<SND, "b", END>> >>

\* note content with n fragments ("" for n = 0)
Content(n) == JoinWith(SubSeq(FragTable, 1, n), US)

Pair(n, m, o) == [flds |-> Content(n), mid |-> m, ord |-> o]

PairKeys == (0..MaxFrags) \X NoteMids \X (0..MaxOrd)

KeyRank(k) == (k[1] * (MaxId + 2) + k[2]) * (MaxOrd + 1) + k[3]

\* join results, up to the order in which the query returns the pairs
RowLists ==
    {[k \in 1..Len(ks) |-> Pair(ks[k][1], ks[k][2], ks[k][3])] :
        ks \in {s \in UNION {[1..n -> PairKeys] : n \in 0..MaxRows} :
                  \A i \in 1..(Len(s) - 1) : KeyRank(s[i]) <= KeyRank(s[i + 1])}}

MidArgs == {None} \cup {Some(m) : m \in NoteMids}

CardTypeArgs == {None, Some("Card 1"), Some("Reverse")}

\* media_map arguments of _get_values: none, and one with the file "a"
MediaMapArgs == {EmptyMap, MediaMapOf({<<"a">>})}

----------------------------------------------------------------------------
(* Direct calls of the helpers on an open connection, as tests/TestFile.py *)
(* makes them                                                              *)

Quiet ==
    /\ db_path = None /\ conn = None /\ scratch = 0 /\ connOpen = 0
    /\ mid = None /\ media_map = EmptyMap /\ header = <<>> /\ values = <<>>
    /\ kept = <<>> /\ outFile = <<>> /\ failedAt = ""
    /\ mediaDir = [exists |-> FALSE, files |-> {}]
    /\ warned = FALSE
    /\ pc = "idle" /\ call = [op |-> "none"] /\ ret = NoRet

InitDb ==
    /\ entries = {"collection.anki21"}
    /\ manifest = <<>>
    /\ models \in Catalogs
    /\ rows \in RowLists
    /\ Quiet

\* header = converter._get_header(conn, mid)
GetHeaderCall ==
    /\ pc = "idle"
    /\ \E m \in MidArgs :
        /\ call' = [op |-> "_get_header", mid |-> m]
        /\ ret' = GetHeader(models, m)
    /\ header' = IF ret'.kind = "value" THEN ret'.val ELSE header
    /\ pc' = "done"
    /\ UNCHANGED <<entries, manifest, models, rows, db_path, conn, scratch,
                   connOpen, mid, media_map, values, kept, outFile, mediaDir,
                   failedAt, warned>>

\* values = converter._get_values(conn, mid, card_type, media_map, is_excel)
GetValuesCall ==
    /\ pc = "idle"
    /\ \E m \in MidArgs, ct \in CardTypeArgs, mm \in MediaMapArgs, x \in BOOLEAN :
        /\ call' = [op |-> "_get_values", mid |-> m, card_type |-> ct,
                    media_map |-> mm, is_excel |-> x]
        /\ ret' = Value(GetValues(models, rows, m, ct, mm, x))
        /\ kept' = KeptSeq(models, rows, m, ct)
    /\ values' = ret'.val
    /\ pc' = "done"
    /\ UNCHANGED <<entries, manifest, models, rows, db_path, conn, scratch,
                   connOpen, mid, media_map, header, outFile, mediaDir,
                   failedAt, warned>>

NextDb == GetHeaderCall \/ GetValuesCall

SpecDb == InitDb /\ [][NextDb]_vars

----------------------------------------------------------------------------
(* Direct calls of _process_media_tags, as test_convert_media makes them *)

InitTags ==
    /\ entries = {"collection.anki21"}
    /\ manifest = <<>>
    /\ models = <<>>
    /\ rows = <<>>
    /\ Quiet

ProcessMediaTagsCall ==
    /\ pc = "idle"
    /\ \E t \in Texts, mm \in MediaMaps, x \in BOOLEAN :
        /\ call' = [op |-> "_process_media_tags", text |-> t, media_map |-> mm,
                    is_excel |-> x]
        /\ ret' = Value(ProcessMediaTags(t, mm, x))
    /\ pc' = "done"
    /\ UNCHANGED <<entries, manifest, models, rows, db_path, conn, scratch,
                   connOpen, mid, media_map, header, values, kept, outFile,
                   mediaDir, failedAt, warned>>

NextTags == ProcessMediaTagsCall

SpecTags == InitTags /\ [][NextTags]_vars

----------------------------------------------------------------------------
(* _extract_media *)

\* the manifest items copied when items 1..n are processed
Copied(ents, man, n) == {k \in 1..n : man[k][1] \in ents}

\* _extract_media returning, from its except clause, the mapping built so far
ExtractMedia_KeepPartial(ents, man, dir, fp) ==
    LET made == [exists |-> TRUE, files |-> dir.files]
        filesOf(n) == {man[k][2] : k \in Copied(ents, man, n)}
    IN
    IF fp.at = "open" THEN [map |-> EmptyMap, dir |-> dir, warned |-> TRUE]
    ELSE IF "media" \notin ents THEN [map |-> EmptyMap, dir |-> dir, warned |-> FALSE]
    ELSE IF fp.at = "decode" THEN [map |-> EmptyMap, dir |-> dir, warned |-> TRUE]
    ELSE IF fp.at = "mkdir" /\ ~dir.exists
         THEN [map |-> EmptyMap, dir |-> dir, warned |-> TRUE]
    ELSE IF fp.at = "write" /\ fp.k \in Copied(ents, man, Len(man))
         THEN [map |-> MediaMapOf(filesOf(fp.k - 1)),
               dir |-> [made EXCEPT !.files = @ \cup filesOf(fp.k - 1)],
               warned |-> TRUE]
    ELSE [map |-> MediaMapOf(filesOf(Len(man))),
          dir |-> [made EXCEPT !.files = @ \cup filesOf(Len(man))],
          warned |-> FALSE]

\* fp is where the step fails: [at |-> "none" | "open" | "decode" | "mkdir"
\* | "write", k |-> the manifest item whose copy fails].  The result is the
\* returned mapping, the media directory left on disk and whether the
\* except clause ran (it prints a warning).
ExtractMedia(ents, man, dir, fp) ==
    LET made == [exists |-> TRUE, files |-> dir.files]
        filesOf(n) == {man[k][2] : k \in Copied(ents, man, n)}
    IN
    IF fp.at = "open" THEN [map |-> EmptyMap, dir |-> dir, warned |-> TRUE]
    ELSE IF "media" \notin ents THEN [map |-> EmptyMap, dir |-> dir, warned |-> FALSE]
    ELSE IF fp.at = "decode" THEN [map |-> EmptyMap, dir |-> dir, warned |-> TRUE]
    ELSE IF fp.at = "mkdir" /\ ~dir.exists
         THEN [map |-> EmptyMap, dir |-> dir, warned |-> TRUE]
    ELSE IF fp.at = "write" /\ fp.k \in Copied(ents, man, Len(man))
         THEN [map |-> EmptyMap,
               dir |-> [made EXCEPT !.files = @ \cup filesOf(fp.k - 1)],
               warned |-> TRUE]
    ELSE [map |-> MediaMapOf(filesOf(Len(man))),
          dir |-> [made EXCEPT !.files = @ \cup filesOf(Len(man))],
          warned |-> FALSE]

FailPoints(man) ==
    {[at |-> a, k |-> 0] : a \in {"none", "open", "decode", "mkdir"}}
        \cup {[at |-> "write", k |-> k] : k \in 1..Len(man)}

----------------------------------------------------------------------------
(* convert and get_model_names *)

\* pd.DataFrame(values, columns=header) raises unless the widest row has as
\* many entries as the header; shorter rows are padded
FrameFails(vals, hdr) ==
    vals # <<>> /\ Max({Len(vals[k]) : k \in 1..Len(vals)}) # Len(hdr)

\* output_path.lower().endswith('.xlsx')
IsExcel(path) == path \in {"out.xlsx", "OUT.XLSX"}

OutputPaths == {"out.csv", "out.xlsx"}

ModelNameArgs ==
    {None, Some(""), Some("Nope")} \cup {Some(ModelTable[i + 1].name) : i \in 0..MaxId}

Manifest2 == << <<"0", <<"a">> >>, <<"1", <<"b">> >> >>

\* the archives: entry names and decoded manifest
Archives ==
    { [entries |-> {"collection.anki21"}, manifest |-> <<>>],
      [entries |-> {"collection.anki2", "media", "0"}, manifest |-> Manifest2],
      [entries |-> {"collection.anki21", "collection.anki2", "media", "0", "1"},
       manifest |-> Manifest2],
      [entries |-> {"media", "0", "1"}, manifest |-> Manifest2] }

\* the join results of the archives: first cards only, content of one
\* fragment or of MaxFrags fragments
PipeRowLists ==
    {rs \in RowLists :
        \A k \in 1..Len(rs) :
            rs[k].ord = 0 /\ rs[k].flds \in {Content(1), Content(MaxFrags)}}

Init ==
    /\ \E a \in Archives : entries = a.entries /\ manifest = a.manifest
    /\ models \in Catalogs
    /\ rows \in PipeRowLists
    /\ Quiet

env == <<entries, manifest, models, rows>>

\* the exception leaves the try block: convert re-raises it as it is,
\* get_model_names wraps it in a RuntimeError; the finally clause is next
Throw(exc, step) ==
    /\ ret' = Raise(IF call.op = "get_model_names" THEN "RuntimeError" ELSE exc)
    /\ failedAt' = step
    /\ pc' = "finally"

\* converter.convert(output_path, model_name, card_type, export_media)
ConvertCall ==
    /\ pc = "idle"
    /\ \E path \in OutputPaths, mn \in ModelNameArgs,
          ct \in {None, Some("Card 1")}, em \in BOOLEAN :
        call' = [op |-> "convert", output_path |-> path, model_name |-> mn,
                 card_type |-> ct, export_media |-> em]
    /\ pc' = "extract_db"
    /\ UNCHANGED <<env, ret, db_path, conn, scratch, connOpen, mid, media_map,
                   header, values, kept, outFile, mediaDir, failedAt, warned>>

\* converter.get_model_names()
GetModelNamesCall ==
    /\ pc = "idle"
    /\ call' = [op |-> "get_model_names"]
    /\ pc' = "extract_db"
    /\ UNCHANGED <<env, ret, db_path, conn, scratch, connOpen, mid, media_map,
                   header, values, kept, outFile, mediaDir, failedAt, warned>>

\* the entry lookup with the two names tried in the other order
DbName_LegacyFirst(ents) ==
    IF "collection.anki2" \in ents THEN Some("collection.anki2")
    ELSE IF "collection.anki21" \in ents THEN Some("collection.anki21")
    ELSE None

\* the entry _extract_db copies
DbName(ents) ==
    IF "collection.anki21" \in ents THEN Some("collection.anki21")
    ELSE IF "collection.anki2" \in ents THEN Some("collection.anki2")
    ELSE None

\* db_path = self._extract_db(); the scratch file is named by the entry it holds
ExtractDb ==
    /\ pc = "extract_db"
    /\ \/ \* the archive cannot be opened or read, or no scratch file be made
          /\ Throw("RuntimeError", "archive_read")
          /\ UNCHANGED <<db_path, scratch>>
       \/ \* neither database entry is in the archive
          /\ DbName(entries) = None
          /\ Throw("RuntimeError", "no_database")
          /\ UNCHANGED <<db_path, scratch>>
       \/ \* the scratch file is created and tf.write fails
          /\ DbName(entries) # None
          /\ scratch' = scratch + 1
          /\ Throw("RuntimeError", "scratch_write")
          /\ UNCHANGED db_path
       \/ /\ DbName(entries) # None
          /\ scratch' = scratch + 1
          /\ db_path' = DbName(entries)
          /\ pc' = "connect"
          /\ UNCHANGED <<ret, failedAt>>
    /\ UNCHANGED <<env, call, conn, connOpen, mid, media_map, header, values,
                   kept, outFile, mediaDir, warned>>

\* conn = self._get_connection(db_path)
Connect ==
    /\ pc = "connect"
    /\ \/ /\ Throw("RuntimeError", "connect")
          /\ UNCHANGED <<conn, connOpen>>
       \/ /\ conn' = Some("conn")
          /\ connOpen' = connOpen + 1
          /\ pc' = IF call.op = "convert" THEN "resolve" ELSE "names"
          /\ UNCHANGED <<ret, failedAt>>
    /\ UNCHANGED <<env, call, db_path, scratch, mid, media_map, header, values,
                   kept, outFile, mediaDir, warned>>

\* get_model_names: models = self._get_models(conn); return the names
Names ==
    /\ pc = "names"
    /\ \/ Throw("RuntimeError", "schema_load")
       \/ /\ ret' = Value(ModelNames(models))
          /\ pc' = "finally"
          /\ UNCHANGED failedAt
    /\ UNCHANGED <<env, call, db_path, conn, scratch, connOpen, mid, media_map,
                   header, values, kept, outFile, mediaDir, warned>>

\* convert: `if model_name:` resolve it to mid
Resolve ==
    /\ pc = "resolve"
    /\ IF ~TruthyStr(call.model_name)
       THEN /\ pc' = "media"
            /\ UNCHANGED <<mid, ret, failedAt>>
       ELSE \/ /\ Throw("RuntimeError", "schema_load")
               /\ UNCHANGED mid
            \/ /\ ResolveName(models, call.model_name[1]) = None
               /\ Throw("ValueError", "resolve_name")
               /\ UNCHANGED mid
            \/ /\ ResolveName(models, call.model_name[1]) # None
               /\ mid' = ResolveName(models, call.model_name[1])
               /\ pc' = "media"
               /\ UNCHANGED <<ret, failedAt>>
    /\ UNCHANGED <<env, call, db_path, conn, scratch, connOpen, media_map,
                   header, values, kept, outFile, mediaDir, warned>>

\* convert: `if export_media:` media_map = self._extract_media(output_dir)
Media ==
    /\ pc = "media"
    /\ IF call.export_media
       THEN \E fp \in FailPoints(manifest) :
               LET r == ExtractMedia(entries, manifest, mediaDir, fp) IN
               /\ media_map' = r.map
               /\ mediaDir' = r.dir
               /\ warned' = r.warned
       ELSE UNCHANGED <<media_map, mediaDir, warned>>
    /\ pc' = "header"
    /\ UNCHANGED <<env, call, ret, db_path, conn, scratch, connOpen, mid,
                   header, values, kept, outFile, failedAt>>

\* header = self._get_header(conn, mid)
Header ==
    /\ pc = "header"
    /\ \/ /\ Throw("RuntimeError", "schema_load")
          /\ UNCHANGED header
       \/ /\ GetHeader(models, mid).kind = "raise"
          /\ Throw(GetHeader(models, mid).exc, "header")
          /\ UNCHANGED header
       \/ /\ GetHeader(models, mid).kind = "value"
          /\ header' = GetHeader(models, mid).val
          /\ pc' = "values"
          /\ UNCHANGED <<ret, failedAt>>
    /\ UNCHANGED <<env, call, db_path, conn, scratch, connOpen, mid, media_map,
                   values, kept, outFile, mediaDir, warned>>

\* values = self._get_values(conn, mid, card_type, media_map, is_excel)
Values ==
    /\ pc = "values"
    /\ \/ /\ Throw("RuntimeError", "projection")
          /\ UNCHANGED <<values, kept>>
       \/ /\ values' = GetValues(models, rows, mid, call.card_type, media_map,
                                 IsExcel(call.output_path))
          /\ kept' = KeptSeq(models, rows, mid, call.card_type)
          /\ pc' = "write"
          /\ UNCHANGED <<ret, failedAt>>
    /\ UNCHANGED <<env, call, db_path, conn, scratch, connOpen, mid, media_map,
                   header, outFile, mediaDir, warned>>

\* df = pd.DataFrame(values, columns=header); df.to_excel / df.to_csv
Write ==
    /\ pc = "write"
    /\ \/ /\ FrameFails(values, header)
          /\ Throw("ValueError", "frame")
          /\ UNCHANGED outFile
       \/ /\ ~FrameFails(values, header)
          /\ Throw("OSError", "write")
          /\ UNCHANGED outFile
       \/ /\ ~FrameFails(values, header)
          /\ outFile' = Some([excel |-> IsExcel(call.output_path),
                              header |-> header, rows |-> values])
          /\ ret' = Value(None)
          /\ pc' = "finally"
          /\ UNCHANGED failedAt
    /\ UNCHANGED <<env, call, db_path, conn, scratch, connOpen, mid, media_map,
                   header, values, kept, mediaDir, warned>>

\* finally: `if conn: conn.close()`, `if db_path and os.path.exists(db_path):
\* os.remove(db_path)`; then the call returns or the exception propagates
Finally ==
    /\ pc = "finally"
    /\ connOpen' = IF conn # None THEN connOpen - 1 ELSE connOpen
    /\ scratch' = IF db_path # None /\ scratch > 0 THEN scratch - 1 ELSE scratch
    /\ pc' = "done"
    /\ UNCHANGED <<env, call, ret, db_path, conn, mid, media_map, header, values,
                   kept, outFile, mediaDir, failedAt, warned>>

Next ==
    \/ ConvertCall \/ GetModelNamesCall \/ ExtractDb \/ Connect \/ Names
    \/ Resolve \/ Media \/ Header \/ Values \/ Write \/ Finally

Spec == Init /\ [][Next]_vars

----------------------------------------------------------------------------
(* Properties of convert and get_model_names, under Spec *)

\* failures of the environment before the note-type name is resolved
BeforeResolve == {"archive_read", "no_database", "scratch_write", "connect"}

NamesOf(ms) == {ms[k].name : k \in 1..Len(ms)}

IdsOf(ms) == {ms[k].id : k \in 1..Len(ms)}

\* C1: when convert() or get_model_names() has returned or raised, whatever
\* step failed, no scratch database file of the call is left and no
\* connection of the call is open.
C1_ResourcesReleased ==
    (pc = "done" /\ call.op \in {"convert", "get_model_names"})
        => (scratch = 0 /\ connOpen = 0)

Rewritten(text) ==
    \E k \in 1..Len(text) : text[k] \in {"media/", "=HYPERLINK(\"", "\", \"Play Audio\")"}

RowsRewritten(vals) ==
    \E k \in 1..Len(vals) : \E j \in 3..Len(vals[k]) : Rewritten(vals[k][j])

\* C8: a note whose note-type id is not in the catalog does not abort the
\* run: each of its cards gives a row with "Unknown" as Note Type and the
\* empty string in every header field column, and an unfiltered convert()
\* over such an archive completes and writes the output file.
C8_UnknownNoteTypeTolerated ==
    (/\ pc = "done" /\ call.op = "convert"
     /\ call.model_name = None /\ call.card_type = None
     /\ models # <<>>
     /\ \E k \in 1..Len(rows) : rows[k].mid \notin IdsOf(models)
     /\ failedAt \notin BeforeResolve \cup {"schema_load", "projection", "write"})
        => /\ ret.kind = "value"
           /\ outFile # None
           /\ \A k \in 1..Len(values) :
                rows[kept[k]].mid \notin IdsOf(models)
                    => /\ values[k][1] = "Unknown"
                       /\ Len(values[k]) = Len(header)
                       /\ \A j \in 3..Len(values[k]) : values[k][j] = <<>>

\* C10: a failure inside _extract_media raises nothing and yields the empty
\* mapping, also when media files were copied before it; convert() goes on
\* with header, projection and writing, and rewrites no media reference.  An
\* archive without a `media` entry yields the empty mapping too.
C10_MediaBestEffort ==
    (call.op = "convert" /\ pc \in {"header", "values", "write", "finally", "done"}
       /\ failedAt \notin BeforeResolve \cup {"resolve_name"}
       /\ call.export_media /\ (warned \/ "media" \notin entries))
        => /\ media_map = EmptyMap
           /\ pc = "header" => ret = NoRet
           /\ ~RowsRewritten(values)
           /\ outFile # None => ~RowsRewritten(outFile[1].rows)
           /\ (pc = "done" /\ ret.kind = "raise")
                => failedAt \in {"schema_load", "header", "projection", "frame", "write"}

C10_Witness ==
    /\ pc = "done" /\ call.op = "convert" /\ call.export_media /\ warned
    /\ mediaDir.files = {<<"a">>}
    /\ media_map = EmptyMap
    /\ ret.kind = "value" /\ outFile # None
    /\ \E k \in 1..Len(values) : \E j \in 3..Len(values[k]) :
          \E i \in 1..Len(values[k][j]) : values[k][j][i] = SND

----------------------------------------------------------------------------
(* Properties of _get_header and _get_values, under SpecDb *)

RECURSIVE Dedup(_, _)
Dedup(s, seen) ==
    IF s = <<>> THEN <<>>
    ELSE IF Head(s) \in seen THEN Dedup(Tail(s), seen)
    ELSE <<Head(s)>> \o Dedup(Tail(s), seen \cup {Head(s)})

\* field names of all note types, each once, in first-seen order
UnionFields(ms) == Dedup(Concat([k \in 1..Len(ms) |-> ms[k].flds]), {})

\* C3: without a note-type filter and with a non-empty catalog, the header
\* is "Note Type", "Card Type" and then the field names of all note types
\* of the catalog, each once, in first-seen order.
C3_UnfilteredHeaderIsUnion ==
    (pc = "done" /\ call.op = "_get_header" /\ call.mid = None /\ models # <<>>)
        => ret = Value(<<"Note Type", "Card Type">> \o UnionFields(models))

\* C4: scoped to the id of a note type of the catalog (0 included), the
\* header is "Note Type", "Card Type" and then that note type's field names
\* in order; scoped to an id outside the catalog, header resolution fails.
C4_ScopedHeader ==
    (pc = "done" /\ call.op = "_get_header" /\ call.mid # None)
        => IF call.mid[1] \in IdsOf(models)
           THEN \E k \in 1..Len(models) :
                   /\ models[k].id = call.mid[1]
                   /\ ret = Value(<<"Note Type", "Card Type">> \o models[k].flds)
           ELSE ret.kind = "raise"

\* the templates of the note type with the given id; none if it is unknown
TemplatesFor(ms, id) ==
    IF id \in IdsOf(ms)
    THEN (CHOOSE m \in {ms[k] : k \in 1..Len(ms)} : m.id = id).tmpls
    ELSE <<>>

\* the Card Type a (note, card) pair is to get
ExpectedCardType(ms, r) ==
    LET T == TemplatesFor(ms, r.mid) IN
    IF r.ord + 1 \in DOMAIN T THEN T[r.ord + 1] ELSE CardLabel[r.ord + 1]

\* C5: every emitted row has as Card Type the name of the template at the
\* card's ordinal when the note's note type has that many templates, and
\* otherwise, also for an unknown note type, "Card N" with N = ordinal + 1;
\* projection raises no error.
C5_CardTypeColumn ==
    (pc = "done" /\ call.op = "_get_values")
        => /\ ret.kind = "value"
           /\ Len(ret.val) = Len(kept)
           /\ \A k \in 1..Len(kept) :
                ret.val[k][2] = ExpectedCardType(models, rows[kept[k]])

C5_Witness ==
    /\ pc = "done" /\ call.op = "_get_values"
    /\ \E k \in 1..Len(kept) :
          /\ rows[kept[k]].mid \in IdsOf(models) /\ rows[kept[k]].ord = 1
          /\ Len(TemplatesFor(models, rows[kept[k]].mid)) = 2
          /\ ret.val[k][2] = "Reverse"

\* the pairs a call of _get_values is to emit
Wanted(ms, rs, c) ==
    {k \in 1..Len(rs) :
        /\ c.mid = None \/ rs[k].mid = c.mid[1]
        /\ c.card_type = None \/ ExpectedCardType(ms, rs[k]) = c.card_type[1]}

\* C7: projection emits exactly one row for each pair of the join that
\* passes the filters that are set (note-type id, template name) and none
\* for the others; so with the id of a catalog note type (0 included) every
\* row carries that note type's name, and with a template filter every row's
\* Card Type is the filter.
C7_FilterIff ==
    (pc = "done" /\ call.op = "_get_values")
        => /\ {kept[k] : k \in 1..Len(kept)} = Wanted(models, rows, call)
           /\ Injective(kept)
           /\ Len(ret.val) = Len(kept)
           /\ (call.mid # None /\ call.mid[1] \in IdsOf(models))
                => \A k \in 1..Len(ret.val) :
                      \E i \in 1..Len(models) :
                          models[i].id = call.mid[1] /\ ret.val[k][1] = models[i].name
           /\ call.card_type # None
                => \A k \in 1..Len(ret.val) : ret.val[k][2] = call.card_type[1]

----------------------------------------------------------------------------
(* Rows against the header, under Spec *)

\* the value a (note, card) pair is to have in the header column `name`
Projected(ms, r, name, mmap, is_excel) ==
    LET frags == Split(r.flds, <<>>)
        F == IF r.mid \in IdsOf(ms)
             THEN (CHOOSE m \in {ms[k] : k \in 1..Len(ms)} : m.id = r.mid).flds
             ELSE <<>>
        P == {p \in 1..Len(F) : F[p] = name /\ p <= Len(frags)}
    IN IF P = {} THEN <<>> ELSE CleanField(frags[Min(P)], mmap, is_excel)

\* C6: every emitted row has as many entries as the header: the two name
\* columns, then for each header field column the note's value of that
\* field, the empty string when the note type does not define the field or
\* the content has no fragment for it; further fragments are dropped.
C6_RowsMatchHeader ==
    (pc = "write" /\ call.op = "convert")
        => \A k \in 1..Len(values) :
              /\ Len(values[k]) = Len(header)
              /\ \A j \in 3..Len(header) :
                    values[k][j] = Projected(models, rows[kept[k]], header[j],
                                             media_map, IsExcel(call.output_path))

----------------------------------------------------------------------------
(* Properties of _process_media_tags, under SpecTags *)

\* "[sound:<filename>]" starts at i: the filename runs to the next "]" and
\* holds no newline
TagAt(t, i) ==
    /\ t[i] = SND
    /\ \E j \in (i + 1)..Len(t) :
          t[j] = END /\ \A k \in (i + 1)..(j - 1) : t[k] \notin {END, NL}

TagEnd(t, i) == CHOOSE j \in (i + 1)..Len(t) :
                   t[j] = END /\ \A k \in (i + 1)..(j - 1) : t[k] \notin {END, NL}

\* the occurrences, left to right and not overlapping: where they start
Starts(t) ==
    LET st[i \in 1..Len(t)] ==
            TagAt(t, i) /\ \A h \in 1..(i - 1) : ~(st[h] /\ TagEnd(t, h) >= i)
    IN {i \in 1..Len(t) : st[i]}

Inside(t, i) == \E h \in Starts(t) : h < i /\ i <= TagEnd(t, h)

Link(path, is_excel) ==
    IF is_excel THEN <<"=HYPERLINK(\"">> \o path \o <<"\", \"Play Audio\")">> ELSE path

\* what each position of the text turns into
Piece(t, i, mmap, is_excel) ==
    IF i \in Starts(t)
    THEN LET filename == SubSeq(t, i + 1, TagEnd(t, i) - 1) IN
         IF filename \in DOMAIN mmap THEN Link(mmap[filename], is_excel)
         ELSE <<t[i]>>
    ELSE IF Inside(t, i)
         THEN LET h == CHOOSE h \in Starts(t) : h < i /\ i <= TagEnd(t, h) IN
              IF SubSeq(t, h + 1, TagEnd(t, h) - 1) \in DOMAIN mmap
              THEN <<>> ELSE <<t[i]>>
    ELSE <<t[i]>>

\* C9: _process_media_tags replaces every [sound:<filename>] whose filename
\* is a key of the mapping by the mapped path, or by the HYPERLINK formula
\* for a spreadsheet, leaves the other occurrences and all text outside the
\* tags as they were, and returns a text without occurrence unchanged.
C9_MediaTagsRewritten ==
    (pc = "done" /\ call.op = "_process_media_tags")
        => /\ ret = Value(Concat([i \in 1..Len(call.text) |->
                            Piece(call.text, i, call.media_map, call.is_excel)]))
           /\ Starts(call.text) = {} => ret = Value(call.text)

C9_Witness ==
    /\ pc = "done" /\ call.op = "_process_media_tags"
    /\ call.text = <<SND, END, SND, "a", END>>
    /\ DOMAIN call.media_map = {<<"a">>}
    /\ call.is_excel
    /\ ret.val = <<SND, END, "=HYPERLINK(\"", "media/", "a", "\", \"Play Audio\")">>

----------------------------------------------------------------------------
(* Properties of _extract_db, under Spec *)

\* C11: database extraction copies the entry collection.anki21 whenever the
\* archive holds it, also beside collection.anki2; it copies collection.anki2
\* only when collection.anki21 is absent; with neither entry it fails and
\* creates no scratch file.
C11_EntryPreference ==
    /\ (pc \notin {"idle", "extract_db"} /\ failedAt \notin {"archive_read", "scratch_write"})
         => IF "collection.anki21" \in entries
            THEN db_path = Some("collection.anki21")
            ELSE IF "collection.anki2" \in entries
                 THEN db_path = Some("collection.anki2")
                 ELSE db_path = None
    /\ db_path # None => db_path[1] \in entries
    /\ (pc # "idle" /\ entries \cap {"collection.anki21", "collection.anki2"} = {})
         => /\ pc \in {"extract_db", "finally", "done"}
            /\ scratch = 0 /\ db_path = None /\ conn = None
            /\ pc \in {"finally", "done"}
                 => /\ ret = Raise("RuntimeError")
                    /\ failedAt \in {"archive_read", "no_database"}

C11_Witness ==
    /\ pc = "connect"
    /\ {"collection.anki21", "collection.anki2"} \subseteq entries
    /\ db_path = Some("collection.anki21")
    /\ scratch = 1

====
